---- MODULE Spec2Model ----
(***************************************************************************)
(* Model of paddock_etl: the spatial matcher (spatial_matching.py), the    *)
(* aggregation rules and the normalizer (data_processing.py) and the       *)
(* per-farm pipeline of PaddockETL (main.py).                              *)
(*                                                                         *)
(* Geometry.  The plane is cut into three cells "a", "b", "c" lying in a   *)
(* row (a touches b, b touches c, a and c are apart) with areas 1, 3, 6.   *)
(* A polygon or multi-polygon is a non-empty set of cells.  {"d"} is a     *)
(* degenerate geometry of area 0 lying inside cell b, and {} is the empty  *)
(* geometry.  intersection(), is_empty and area are computed on that.      *)
(* Ratios are kept exact as numerator/denominator pairs.                   *)
(***************************************************************************)
EXTENDS Integers, Sequences, FiniteSets, TLC

(*************************** bounds of the model ***************************)
\* rows of the data table, shared by the farms one PaddockETL instance processes
MaxRecs == 3
\* farms processed by one PaddockETL instance
MaxFarms == 2
\* rows of a frame handed to normalize_farm_data on its own
MaxNormRecs == 2
\* values handed to _apply_aggregation_rule
MaxVals == 4
\* reference paddocks handed to find_best_spatial_match on its own
MaxRefs == 3
\* rows of a frame handed to create_reference_paddocks on its own
MaxRefRecs == 3

Ids == 1..3
NormIds == 1..2
RefIds == 1..MaxRefs
Years == {2022, 2023}
Cells == {"a", "b", "c"}

(******************************* geometry **********************************)
CellArea(x) == CASE x = "a" -> 1 [] x = "b" -> 3 [] x = "c" -> 6 [] OTHER -> 0

\* shapely: geom.area
Area(g) ==
    (IF "a" \in g THEN CellArea("a") ELSE 0)
  + (IF "b" \in g THEN CellArea("b") ELSE 0)
  + (IF "c" \in g THEN CellArea("c") ELSE 0)

Adjacent(x, y) ==
    {x, y} \in {{"a", "b"}, {"b", "c"}, {"d", "b"}}

\* shapely: historical_geom.intersection(ref_geom), as (is_empty, area)
Intersection(g, h) ==
    [is_empty |-> (g \cap h = {}) /\ ~(\E x \in g, y \in h : Adjacent(x, y)),
     area     |-> Area(g \cap h)]

Polygons == (SUBSET Cells) \ {{}}
AllGeoms == Polygons \cup {{"d"}, {}}
\* geometries of the paddocks table in the pipeline runs
FarmGeoms == {{"a"}, {"b"}, {"a", "b", "c"}}

(************************** configuration **********************************)
\* ETLConfig.min_overlap_threshold = 0.3, as the fraction 3/10
ThresholdNum == 3
ThresholdDen == 10

\* Python None where a paddock id is expected (ids are 1, 2, ...)
NoneId == 0

VARIABLES
    pc,                  \* position inside the running call, "idle" between calls
    farms_done,          \* number of process_single_farm calls started
    rows_read,           \* rows of the data table handed out so far
    outcome,             \* how the last call ended: "ok", "none", "raised", "-"
    gdf,                 \* the frame extracted for the current farm
    reference_year,      \* SpatialMatcher.reference_year (0 is None)
    reference_paddocks,  \* SpatialMatcher.reference_paddocks: id -> geometry, by ascending id
    paddock_mapping,     \* SpatialMatcher.paddock_mapping
    stats,               \* the dict returned by get_mapping_stats
    rules,               \* ETLConfig.namespace_aggregation_rules
    result_data,         \* normalize_farm_data: the rows built from the groups
    normalized_df,       \* normalize_farm_data: the frame returned
    vals,                \* _apply_aggregation_rule: argument values
    rule,                \* _apply_aggregation_rule: argument rule
    paddock_count,       \* _apply_aggregation_rule: argument paddock_count
    result,              \* _apply_aggregation_rule: the value returned
    historical_geom,     \* find_best_spatial_match: argument historical_geom
    match                \* find_best_spatial_match: the pair returned

matcherVars == <<reference_year, reference_paddocks, paddock_mapping>>
driverVars == <<farms_done, rows_read, outcome>>
normVars == <<result_data, normalized_df>>
ruleVars == <<vals, rule, paddock_count, result>>
matchVars == <<historical_geom, match>>

vars == <<pc, farms_done, rows_read, outcome, gdf, reference_year, reference_paddocks,
          paddock_mapping, stats, rules, result_data, normalized_df,
          vals, rule, paddock_count, result, historical_geom, match>>

(****************************** helpers ************************************)
EmptyMap == [x \in {} |-> 0]

Indices(s) == 1..Len(s)

MaxOf(S) == CHOOSE x \in S : \A y \in S : y <= x
MinOf(S) == CHOOSE x \in S : \A y \in S : x <= y

\* index of the first row of frame f that satisfies the row set R
FirstIndex(f, R) == MinOf({i \in Indices(f) : i \in R})

PaddockIds(f) == {f[i].data_paddock_id : i \in Indices(f)}

(*************************** spatial matcher *******************************)
\* SpatialMatcher.determine_reference_year: gdf['year'].max()
DetermineReferenceYearOf(f) == MaxOf({f[i].year : i \in Indices(f)})

\* SpatialMatcher.create_reference_paddocks: rows of the reference year,
\* groupby('data_paddock_id').first(): the first row of each id, ids ascending
CreateReferencePaddocksOf(f, ry) ==
    LET rows == {i \in Indices(f) : f[i].year = ry}
        ids  == {f[i].data_paddock_id : i \in rows}
    IN  [p \in ids |->
            f[FirstIndex(f, {i \in rows : f[i].data_paddock_id = p})].geometry]

\* a slip: overlap_ratio >= max_overlap
RatioGreater_OrEqual(n1, d1, n2, d2) == n1 * d2 >= n2 * d1

\* overlap_ratio > max_overlap on exact fractions
RatioGreater(n1, d1, n2, d2) == n1 * d2 > n2 * d1

\* one pass of the loop body of find_best_spatial_match for reference row r
MatchStep(acc, hist_geom, r, ref_geom) ==
    LET intersection == Intersection(hist_geom, ref_geom)
        overlap_area == intersection.area
        historical_area == Area(hist_geom)
    IN  IF intersection.is_empty THEN acc
        ELSE IF historical_area = 0 THEN acc
        ELSE IF RatioGreater(overlap_area, historical_area, acc.num, acc.den)
             THEN [best |-> r, num |-> overlap_area, den |-> historical_area]
             ELSE acc

RECURSIVE MatchLoop(_, _, _, _)
MatchLoop(acc, hist_geom, refs, todo) ==
    IF todo = {} THEN acc
    ELSE LET r == MinOf(todo)
         IN  MatchLoop(MatchStep(acc, hist_geom, r, refs[r]),
                       hist_geom, refs, todo \ {r})

\* SpatialMatcher.find_best_spatial_match: (best_match, max_overlap)
FindBestSpatialMatch(hist_geom, refs) ==
    MatchLoop([best |-> NoneId, num |-> 0, den |-> 1],
              hist_geom, refs, DOMAIN refs)

\* a slip: overlap_ratio > self.config.min_overlap_threshold
MeetsThreshold_Strict(num, den) == num * ThresholdDen > ThresholdNum * den

\* overlap_ratio >= self.config.min_overlap_threshold
MeetsThreshold(num, den) == num * ThresholdDen >= ThresholdNum * den

\* a slip: the else branch stores the missing match instead of the paddock's own id
MappedId_NoFallback(paddock_id, geometry, refs) ==
    LET m == FindBestSpatialMatch(geometry, refs)
    IN  IF m.best # NoneId /\ MeetsThreshold(m.num, m.den)
        THEN m.best ELSE m.best

\* the entry create_paddock_mapping writes for one historical row
MappedId(paddock_id, geometry, refs) ==
    LET m == FindBestSpatialMatch(geometry, refs)
    IN  IF m.best # NoneId /\ MeetsThreshold(m.num, m.den)
        THEN m.best ELSE paddock_id

\* the historical loop: drop_duplicates keeps the first row of each id
HistoricalEntries(f, ry, refs, old) ==
    LET rows == {i \in Indices(f) : f[i].year # ry}
        ids  == {f[i].data_paddock_id : i \in rows}
    IN  [p \in (DOMAIN old) \cup ids |->
            IF p \in ids
            THEN MappedId(p, f[FirstIndex(f, {i \in rows : f[i].data_paddock_id = p})].geometry, refs)
            ELSE old[p]]

\* the reference loop: every reference paddock maps to itself
ReferenceEntries(refs, old) ==
    [p \in (DOMAIN old) \cup (DOMAIN refs) |-> IF p \in DOMAIN refs THEN p ELSE old[p]]

\* a slip: the reference loop runs before the historical loop
CreatePaddockMappingOf_ReferenceFirst(f, ry, refs, old) ==
    HistoricalEntries(f, ry, refs, ReferenceEntries(refs, old))

\* SpatialMatcher.create_paddock_mapping: writes into self.paddock_mapping
CreatePaddockMappingOf(f, ry, refs, old) ==
    ReferenceEntries(refs, HistoricalEntries(f, ry, refs, old))

\* SpatialMatcher.get_mapping_stats
GetMappingStatsOf(mapping, ry, refs) ==
    LET total_mapped == Cardinality(DOMAIN mapping)
        self_mapped == Cardinality({k \in DOMAIN mapping : mapping[k] = k})
    IN  [total_paddocks |-> total_mapped,
         self_mapped |-> self_mapped,
         remapped |-> total_mapped - self_mapped,
         reference_year |-> ry,
         reference_paddocks_count |-> Cardinality(DOMAIN refs)]

NoStats == [total_paddocks |-> 0, self_mapped |-> 0, remapped |-> 0,
            reference_year |-> 0, reference_paddocks_count |-> 0]

(************************* aggregation rules *******************************)
\* Attribute values: JSON scalars.  kind "int" is a Python int that float()
\* converts, kind "bigint" a Python int beyond the float range (float() raises
\* OverflowError), kind "str" a string (num is its index), kind "null" is None,
\* kind "float" is the fraction num/den.
IntV(n) == [kind |-> "int", num |-> n, den |-> 1]
StrV(n) == [kind |-> "str", num |-> n, den |-> 1]
FloatV(n, d) == [kind |-> "float", num |-> n, den |-> d]
NullV == [kind |-> "null", num |-> 0, den |-> 1]
BigV == [kind |-> "bigint", num |-> 0, den |-> 1]
\* an exception leaving the try block of _apply_aggregation_rule
Raised == [kind |-> "raised", num |-> 0, den |-> 1]

\* isinstance(v, (int, float))
IsNumber(v) == v.kind \in {"int", "bigint", "float"}

RECURSIVE SumNums(_)
SumNums(s) == IF s = <<>> THEN 0 ELSE Head(s).num + SumNums(Tail(s))

\* a slip: float(v) for every clean value, without the isinstance filter
\* (float() raises ValueError on a string)
FloatsOf_NoFilter(clean_values) ==
    IF \E i \in 1..Len(clean_values) : clean_values[i].kind \in {"bigint", "str"}
    THEN [raised |-> TRUE, nums |-> <<>>]
    ELSE [raised |-> FALSE, nums |-> clean_values]

\* [float(v) for v in clean_values if isinstance(v, (int, float))]: the
\* numbers kept, or Raised when float() overflows on one of them
FloatsOf(clean_values) ==
    LET nums == SelectSeq(clean_values, IsNumber)
    IN  IF \E i \in 1..Len(nums) : nums[i].kind = "bigint"
        THEN [raised |-> TRUE, nums |-> <<>>]
        ELSE [raised |-> FALSE, nums |-> nums]

\* sum(float(v) for ...): Python's sum starts from the int 0
PySum(nums) == IF nums = <<>> THEN IntV(0) ELSE FloatV(SumNums(nums), 1)

\* Counter(clean_values): the distinct values in first-insertion order, with counts
RECURSIVE CounterOf(_, _)
CounterOf(s, acc) ==
    IF s = <<>> THEN acc
    ELSE LET v == Head(s)
             hit == {i \in 1..Len(acc) : acc[i].value = v}
         IN  IF hit = {}
             THEN CounterOf(Tail(s), Append(acc, [value |-> v, count |-> 1]))
             ELSE CounterOf(Tail(s),
                    [i \in 1..Len(acc) |->
                        IF i \in hit THEN [value |-> v, count |-> acc[i].count + 1]
                        ELSE acc[i]])

\* most_common(1): heapq.nlargest(1, items, key=count) is max(), which keeps
\* the first of the items with the greatest count
\* a slip: among equal counts the last one wins
RECURSIVE MaxByCount_LastWins(_, _)
MaxByCount_LastWins(items, best) ==
    IF items = <<>> THEN best
    ELSE MaxByCount_LastWins(Tail(items),
                    IF Head(items).count >= best.count THEN Head(items) ELSE best)

RECURSIVE MaxByCount(_, _)
MaxByCount(items, best) ==
    IF items = <<>> THEN best
    ELSE MaxByCount(Tail(items),
                    IF Head(items).count > best.count THEN Head(items) ELSE best)

MostCommon(clean_values) ==
    LET items == CounterOf(clean_values, <<>>)
    IN  MaxByCount(Tail(items), Head(items)).value

\* the try block of _apply_aggregation_rule
RuleBody(clean_values, rule_name, count) ==
    LET fl == FloatsOf(clean_values)
    IN  CASE rule_name = "sum" ->
               IF fl.raised THEN Raised ELSE PySum(fl.nums)
          [] rule_name = "mean" ->
               IF fl.raised THEN Raised
               ELSE IF fl.nums = <<>> THEN NullV
               ELSE FloatV(SumNums(fl.nums), Len(fl.nums))
          [] rule_name = "divide_by_paddock_count" ->
               IF fl.raised THEN Raised
               ELSE IF count > 0 THEN FloatV(SumNums(fl.nums), count)
               ELSE PySum(fl.nums)
          [] rule_name = "first" -> clean_values[1]
          [] rule_name = "majority" -> MostCommon(clean_values)
          [] OTHER -> clean_values[1]

\* a slip: the except clause logs and raises again
ExceptFallback_Reraise(clean_values) == Raised

\* the except clause: return clean_values[0] if clean_values else None
ExceptFallback(clean_values) ==
    IF clean_values # <<>> THEN clean_values[1] ELSE NullV

IsNotNull(v) == v.kind # "null"

\* DataProcessor._apply_aggregation_rule
ApplyRule(values, rule_name, count) ==
    LET clean_values == SelectSeq(values, IsNotNull)
    IN  IF clean_values = <<>> THEN NullV
        ELSE LET r == RuleBody(clean_values, rule_name, count)
             IN  IF r = Raised THEN ExceptFallback(clean_values) ELSE r

(**************************** rule tables **********************************)
\* ETLConfig.__post_init__: the default namespace_aggregation_rules
DefaultRules ==
    [ns \in {"livestock", "production"} |->
        IF ns = "livestock"
        THEN [k \in {"animal_count", "stocking_rate", "animal_type"} |->
                 CASE k = "animal_count" -> "sum"
                   [] k = "stocking_rate" -> "mean"
                   [] OTHER -> "first"]
        ELSE [k \in {"total_yield", "yield_per_ha", "crop_type"} |->
                 CASE k = "total_yield" -> "sum"
                   [] k = "yield_per_ha" -> "mean"
                   [] OTHER -> "first"]]

\* a table passed by the caller: ETLConfig(namespace_aggregation_rules=...)
CallerRules ==
    [ns \in {"production"} |->
        [k \in {"animal_count", "animal_type"} |->
            IF k = "animal_count" THEN "divide_by_paddock_count" ELSE "majority"]]

RuleTables == {DefaultRules, CallerRules}

\* a slip: the default rule is "sum"
RuleFor_DefaultSum(table, namespace, key) ==
    IF namespace \in DOMAIN table /\ key \in DOMAIN table[namespace]
    THEN table[namespace][key] ELSE "sum"

\* self.config.namespace_aggregation_rules.get(namespace, {}).get(key, "first")
RuleFor(table, namespace, key) ==
    IF namespace \in DOMAIN table /\ key \in DOMAIN table[namespace]
    THEN table[namespace][key] ELSE "first"

(****************************** normalizer *********************************)
\* the data column: a dict (isdict) with its items, or None
Dict(items) == [isdict |-> TRUE, items |-> items]
NoneData == [isdict |-> FALSE, items |-> EmptyMap]

\* json.dumps(combined_data) if combined_data else None
JsonCell(data) ==
    IF data.isdict /\ DOMAIN data.items # {}
    THEN [json |-> TRUE, obj |-> data.items]
    ELSE [json |-> FALSE, obj |-> EmptyMap]

RECURSIVE SeqOfSet(_)
SeqOfSet(S) == IF S = {} THEN <<>> ELSE <<MinOf(S)>> \o SeqOfSet(S \ {MinOf(S)})

\* values.append(row['data'][key]) over the rows of the group that hold the key
RECURSIVE CollectValues(_, _)
CollectValues(group, key) ==
    IF group = <<>> THEN <<>>
    ELSE LET row == Head(group)
         IN  (IF row.data.isdict /\ key \in DOMAIN row.data.items
              THEN <<row.data.items[key]>> ELSE <<>>)
             \o CollectValues(Tail(group), key)

\* DataProcessor.combine_namespace_data
CombineNamespaceData(group, namespace, count, table) ==
    IF Len(group) = 1 THEN group[1].data
    ELSE LET all_keys == UNION {DOMAIN group[i].data.items :
                                  i \in {j \in 1..Len(group) : group[j].data.isdict}}
         IN  Dict([key \in all_keys |->
                     ApplyRule(CollectValues(group, key),
                               RuleFor(table, namespace, key), count)])

\* len(group['data_paddock_id'].unique())
OriginalPaddockCount(group) ==
    Cardinality({group[i].data_paddock_id : i \in 1..Len(group)})

\* the loop of normalize_farm_data over the groups: result_data
ResultData(f, mapping, table) ==
    LET mapped == {i \in Indices(f) : f[i].data_paddock_id \in DOMAIN mapping}
        keys == {<<mapping[f[i].data_paddock_id], f[i].year, f[i].namespace>> : i \in mapped}
        GroupOf(k) == [j \in 1..Cardinality({i \in mapped :
                              <<mapping[f[i].data_paddock_id], f[i].year, f[i].namespace>> = k})
                         |-> f[SeqOfSet({i \in mapped :
                              <<mapping[f[i].data_paddock_id], f[i].year, f[i].namespace>> = k})[j]]]
    IN  {[normalized_paddock_id |-> k[1],
          year |-> k[2],
          namespace |-> k[3],
          data |-> JsonCell(CombineNamespaceData(GroupOf(k), k[3],
                                OriginalPaddockCount(GroupOf(k)), table)),
          original_paddock_count |-> OriginalPaddockCount(GroupOf(k))] : k \in keys}

EmptyFrame == [columns |-> {}, rows |-> {}]

\* result_df.pivot_table(index=[id, year], columns='namespace', values='data',
\* aggfunc='first'): dropna=True removes the (id, year, namespace) entries whose
\* data is null before they are unstacked
PivotTable(rd) ==
    LET agged == {r \in rd : r.data.json}
        columns == {r.namespace : r \in agged}
        index == {<<r.normalized_paddock_id, r.year>> : r \in agged}
        Cell(k, c) ==
            LET hit == {r \in agged : r.normalized_paddock_id = k[1] /\ r.year = k[2]
                                        /\ r.namespace = c}
            IN  IF hit = {} THEN [json |-> FALSE, obj |-> EmptyMap]
                ELSE (CHOOSE r \in hit : TRUE).data
    IN  [columns |-> columns,
         rows |-> {[normalized_paddock_id |-> k[1], year |-> k[2],
                    cells |-> [c \in columns |-> Cell(k, c)]] : k \in index}]

\* DataProcessor.normalize_farm_data
NormalizeFarmDataOf(f, mapping, table) ==
    LET rd == ResultData(f, mapping, table)
    IN  IF rd = {} THEN EmptyFrame ELSE PivotTable(rd)

(************************* the extracted frames ****************************)
YearDescending(f) == \A i \in 1..(Len(f) - 1) : f[i].year >= f[i + 1].year

\* frames of k rows over the rows R, in the order of the query of
\* get_farm_data_with_geometries (ORDER BY d.year DESC)
Frames(R, k) == {f \in [1..k -> R] : YearDescending(f)}

\* rows of the farms processed by the pipeline; the rows of one farm all carry
\* the same attribute payload d
FarmData == {Dict(EmptyMap), Dict([k \in {"animal_count"} |-> IntV(10)])}

FarmRecords(d) ==
    [data_paddock_id : Ids, year : Years, geometry : FarmGeoms,
     namespace : {"livestock"}, data : {d}]

\* rows handed to normalize_farm_data on its own
NormData ==
    {NoneData} \cup
    {Dict(d) : d \in {e \in UNION {[K -> {IntV(10), IntV(15), StrV(1)}] :
                                       K \in SUBSET {"animal_count", "animal_type"}} :
                         \A k \in DOMAIN e : (e[k].kind = "str") <=> (k = "animal_type")}}

NormRecords ==
    [data_paddock_id : NormIds, year : Years, geometry : {{"a"}},
     namespace : {"livestock", "production"}, data : NormData]

PartialMaps(S, T) == UNION {[K -> T] : K \in SUBSET S}

RuleValues == {IntV(10), IntV(15), StrV(1), StrV(2), NullV, BigV}
RuleNames == {"sum", "mean", "divide_by_paddock_count", "first", "majority", "median"}

NoMatch == [best |-> NoneId, num |-> 0, den |-> 1]

(******************************* pipeline **********************************)
\* PaddockETL.__init__: one SpatialMatcher and one DataProcessor per instance
Init ==
    /\ pc = "idle"
    /\ farms_done = 0
    /\ rows_read = 0
    /\ outcome = "-"
    /\ gdf = <<>>
    /\ reference_year = 0
    /\ reference_paddocks = EmptyMap
    /\ paddock_mapping = EmptyMap
    /\ stats = NoStats
    /\ rules = DefaultRules
    /\ result_data = {}
    /\ normalized_df = EmptyFrame
    /\ vals = <<>>
    /\ rule = "first"
    /\ paddock_count = 0
    /\ result = NullV
    /\ historical_geom = {}
    /\ match = NoMatch

\* process_single_farm, step 1: get_farm_data_with_geometries returns a frame
\* (an empty one ends the call with None) or raises
Extract ==
    /\ pc = "idle"
    /\ farms_done < MaxFarms
    /\ farms_done' = farms_done + 1
    /\ \/ \E k \in 0..(MaxRecs - rows_read), d \in FarmData : \E f \in Frames(FarmRecords(d), k) :
             /\ gdf' = f
             /\ rows_read' = rows_read + Len(f)
             /\ IF f = <<>>
                THEN pc' = "idle" /\ outcome' = "none"
                ELSE pc' = "extracted" /\ outcome' = "-"
       \/ /\ gdf' = <<>>
          /\ pc' = "idle"
          /\ outcome' = "raised"
          /\ UNCHANGED rows_read
    /\ stats' = NoStats
    /\ result_data' = {}
    /\ normalized_df' = EmptyFrame
    /\ UNCHANGED <<matcherVars, rules, ruleVars, matchVars>>

\* step 2: self.spatial_matcher.determine_reference_year(gdf)
DetermineReferenceYear ==
    /\ pc = "extracted"
    /\ reference_year' = DetermineReferenceYearOf(gdf)
    /\ pc' = "year"
    /\ UNCHANGED <<driverVars, gdf, reference_paddocks, paddock_mapping, stats, rules,
                   normVars, ruleVars, matchVars>>

\* self.spatial_matcher.create_reference_paddocks(gdf)
CreateReferencePaddocks ==
    /\ pc = "year"
    /\ reference_paddocks' = CreateReferencePaddocksOf(gdf, reference_year)
    /\ pc' = "reference"
    /\ UNCHANGED <<driverVars, gdf, reference_year, paddock_mapping, stats, rules,
                   normVars, ruleVars, matchVars>>

\* paddock_mapping = self.spatial_matcher.create_paddock_mapping(gdf)
CreatePaddockMapping ==
    /\ pc = "reference"
    /\ paddock_mapping' =
          CreatePaddockMappingOf(gdf, reference_year, reference_paddocks, paddock_mapping)
    /\ pc' = "mapped"
    /\ UNCHANGED <<driverVars, gdf, reference_year, reference_paddocks, stats, rules,
                   normVars, ruleVars, matchVars>>

\* stats = self.spatial_matcher.get_mapping_stats()
GetMappingStats ==
    /\ pc = "mapped"
    /\ stats' = GetMappingStatsOf(paddock_mapping, reference_year, reference_paddocks)
    /\ pc' = "stats"
    /\ UNCHANGED <<driverVars, gdf, matcherVars, rules, normVars, ruleVars, matchVars>>

\* step 3: normalize_farm_data(gdf, paddock_mapping); an empty frame ends the
\* call with None
NormalizeFarmData ==
    /\ pc = "stats"
    /\ result_data' = ResultData(gdf, paddock_mapping, rules)
    /\ normalized_df' = NormalizeFarmDataOf(gdf, paddock_mapping, rules)
    /\ IF normalized_df'.rows = {}
       THEN pc' = "idle" /\ outcome' = "none"
       ELSE pc' = "normalized" /\ outcome' = outcome
    /\ UNCHANGED <<farms_done, rows_read, gdf, matcherVars, stats, rules, ruleVars, matchVars>>

\* steps 4 and 5: validate_farm_data, then save_results writes the file or raises
SaveResults ==
    /\ pc = "normalized"
    /\ pc' = "idle"
    /\ outcome' \in {"ok", "raised"}
    /\ UNCHANGED <<farms_done, rows_read, gdf, matcherVars, stats, rules, normVars,
                   ruleVars, matchVars>>

Next ==
    \/ Extract
    \/ DetermineReferenceYear
    \/ CreateReferencePaddocks
    \/ CreatePaddockMapping
    \/ GetMappingStats
    \/ NormalizeFarmData
    \/ SaveResults

Spec == Init /\ [][Next]_vars

(******************* normalize_farm_data called on its own *****************)
InitNorm ==
    /\ pc = "norm_call"
    /\ farms_done = 0
    /\ rows_read = 0
    /\ outcome = "-"
    /\ \E k \in 0..MaxNormRecs : gdf \in Frames(NormRecords, k)
    /\ reference_year = 0
    /\ reference_paddocks = EmptyMap
    /\ paddock_mapping \in PartialMaps(NormIds, NormIds)
    /\ stats = NoStats
    /\ rules \in RuleTables
    /\ result_data = {}
    /\ normalized_df = EmptyFrame
    /\ vals = <<>>
    /\ rule = "first"
    /\ paddock_count = 0
    /\ result = NullV
    /\ historical_geom = {}
    /\ match = NoMatch

NormalizeCall ==
    /\ pc = "norm_call"
    /\ result_data' = ResultData(gdf, paddock_mapping, rules)
    /\ normalized_df' = NormalizeFarmDataOf(gdf, paddock_mapping, rules)
    /\ pc' = "norm_done"
    /\ UNCHANGED <<driverVars, gdf, matcherVars, stats, rules, ruleVars, matchVars>>

NextNorm == NormalizeCall

SpecNorm == InitNorm /\ [][NextNorm]_vars

(**************** _apply_aggregation_rule called on its own ****************)
InitRule ==
    /\ pc = "rule_call"
    /\ farms_done = 0
    /\ rows_read = 0
    /\ outcome = "-"
    /\ gdf = <<>>
    /\ reference_year = 0
    /\ reference_paddocks = EmptyMap
    /\ paddock_mapping = EmptyMap
    /\ stats = NoStats
    /\ rules = DefaultRules
    /\ result_data = {}
    /\ normalized_df = EmptyFrame
    /\ vals \in UNION {[1..k -> RuleValues] : k \in 0..MaxVals}
    /\ rule \in RuleNames
    /\ paddock_count \in 0..2
    /\ result = NullV
    /\ historical_geom = {}
    /\ match = NoMatch

ApplyRuleCall ==
    /\ pc = "rule_call"
    /\ result' = ApplyRule(vals, rule, paddock_count)
    /\ pc' = "rule_done"
    /\ UNCHANGED <<driverVars, gdf, matcherVars, stats, rules, normVars,
                   vals, rule, paddock_count, matchVars>>

NextRule == ApplyRuleCall

SpecRule == InitRule /\ [][NextRule]_vars

(***************** find_best_spatial_match called on its own ***************)
InitMatch ==
    /\ pc = "match_call"
    /\ farms_done = 0
    /\ rows_read = 0
    /\ outcome = "-"
    /\ gdf = <<>>
    /\ reference_year = 2023
    /\ reference_paddocks \in PartialMaps(RefIds, AllGeoms)
    /\ paddock_mapping = EmptyMap
    /\ stats = NoStats
    /\ rules = DefaultRules
    /\ result_data = {}
    /\ normalized_df = EmptyFrame
    /\ vals = <<>>
    /\ rule = "first"
    /\ paddock_count = 0
    /\ result = NullV
    /\ historical_geom \in AllGeoms
    /\ match = NoMatch

FindBestCall ==
    /\ pc = "match_call"
    /\ match' = FindBestSpatialMatch(historical_geom, reference_paddocks)
    /\ pc' = "match_done"
    /\ UNCHANGED <<driverVars, gdf, matcherVars, stats, rules, normVars, ruleVars,
                   historical_geom>>

NextMatch == FindBestCall

SpecMatch == InitMatch /\ [][NextMatch]_vars

(**************** create_reference_paddocks called on its own **************)
\* p.updated_at of the paddocks table
UpdatedAts == 1..2
RefGeoms == {{"a"}, {"b"}}

\* rows of a frame with the columns p.geometry and p.updated_at of the query
RefRecords ==
    [data_paddock_id : NormIds, year : Years, geometry : RefGeoms,
     namespace : {"livestock"}, data : {Dict(EmptyMap)}, updated_at : UpdatedAts]

\* a caller holds a frame of at least one row, in any row order, and calls
\* determine_reference_year and then create_reference_paddocks on it
InitRef ==
    /\ pc = "extracted"
    /\ farms_done = 0
    /\ rows_read = 0
    /\ outcome = "-"
    /\ \E k \in 1..MaxRefRecs : gdf \in [1..k -> RefRecords]
    /\ reference_year = 0
    /\ reference_paddocks = EmptyMap
    /\ paddock_mapping = EmptyMap
    /\ stats = NoStats
    /\ rules = DefaultRules
    /\ result_data = {}
    /\ normalized_df = EmptyFrame
    /\ vals = <<>>
    /\ rule = "first"
    /\ paddock_count = 0
    /\ result = NullV
    /\ historical_geom = {}
    /\ match = NoMatch

NextRef ==
    \/ DetermineReferenceYear
    \/ CreateReferencePaddocks

SpecRef == InitRef /\ [][NextRef]_vars

(***************************************************************************)
(*                         properties of the matcher                       *)
(***************************************************************************)
\* the mapping of the current farm has been built
Mapped == pc \in {"mapped", "stats", "normalized"}

\* rows and ids of the reference year (the greatest year of the frame)
RefRows == {i \in Indices(gdf) : \A j \in Indices(gdf) : gdf[j].year <= gdf[i].year}
RefIdsOfInput == {gdf[i].data_paddock_id : i \in RefRows}
HistRows == Indices(gdf) \ RefRows
HistOnlyIds == {gdf[i].data_paddock_id : i \in HistRows} \ RefIdsOfInput

\* the geometry of the first historical row of paddock h
HistGeom(h) ==
    gdf[CHOOSE i \in HistRows : /\ gdf[i].data_paddock_id = h
                                /\ \A j \in HistRows :
                                      gdf[j].data_paddock_id = h => i <= j].geometry

\* C1 as stated: every paddock_id of the input is a key of paddock_mapping and
\* every key maps to a paddock_id of the reference-year paddock set.
C1_TotalIntoReferenceSet ==
    Mapped =>
        /\ PaddockIds(gdf) \subseteq DOMAIN paddock_mapping
        /\ \A p \in DOMAIN paddock_mapping :
              paddock_mapping[p] \in DOMAIN reference_paddocks

\* C1 amended: every paddock_id of the input is a key of paddock_mapping, and
\* each of them maps to a paddock_id of the reference-year set or to itself.
C1_TotalIntoReferenceOrSelf ==
    Mapped =>
        /\ PaddockIds(gdf) \subseteq DOMAIN paddock_mapping
        /\ DOMAIN reference_paddocks = RefIdsOfInput
        /\ \A p \in PaddockIds(gdf) :
              \/ paddock_mapping[p] \in RefIdsOfInput
              \/ paddock_mapping[p] = p

\* a farm with one historical paddock remapped and another kept as itself
C1_Witness ==
    /\ pc = "mapped"
    /\ \E p, q \in HistOnlyIds :
          /\ paddock_mapping[p] = p
          /\ paddock_mapping[q] # q
          /\ paddock_mapping[q] \in RefIdsOfInput

\* C2: every paddock_id with a record in the reference year maps to itself,
\* also when an earlier-year record of it best-matches another reference paddock.
C2_ReferenceSelfMapping ==
    Mapped =>
        \A r \in RefIdsOfInput :
            r \in DOMAIN paddock_mapping /\ paddock_mapping[r] = r

\* a reference paddock whose earlier-year geometry is matched, above the
\* threshold, to a different reference paddock
C2_Witness ==
    /\ pc = "mapped"
    /\ \E r \in RefIdsOfInput :
          /\ \E i \in HistRows : gdf[i].data_paddock_id = r
          /\ LET m == FindBestSpatialMatch(HistGeom(r), reference_paddocks)
             IN  /\ m.best \notin {NoneId, r}
                 /\ m.num * ThresholdDen >= ThresholdNum * m.den
          /\ paddock_mapping[r] = r

\* C3: a paddock_id h found only in non-reference years maps to the best match
\* when there is one and its overlap ratio is at least the threshold (3/10,
\* equality included), and to h itself otherwise.
C3_ThresholdDecision ==
    Mapped =>
        \A h \in HistOnlyIds :
            LET m == FindBestSpatialMatch(HistGeom(h), reference_paddocks)
                accepted ==
                    /\ m.best # NoneId
                    /\ 10 * Area(HistGeom(h) \cap reference_paddocks[m.best])
                          >= 3 * Area(HistGeom(h))
            IN  paddock_mapping[h] = IF accepted THEN m.best ELSE h

\* a historical paddock whose best overlap ratio is exactly 3/10 and is remapped
C3_Witness ==
    /\ pc = "mapped"
    /\ \E h \in HistOnlyIds :
          LET m == FindBestSpatialMatch(HistGeom(h), reference_paddocks)
          IN  /\ m.best # NoneId
              /\ 10 * m.num = 3 * m.den
              /\ paddock_mapping[h] = m.best
              /\ m.best # h

\* a historical paddock whose best overlap ratio is positive but below 3/10 is kept
C3_BelowThresholdReached ==
    /\ pc = "mapped"
    /\ \E h \in HistOnlyIds :
          LET m == FindBestSpatialMatch(HistGeom(h), reference_paddocks)
          IN  /\ m.best # NoneId
              /\ 10 * m.num < 3 * m.den
              /\ paddock_mapping[h] = h

\* overlap area of the historical geometry with reference paddock r
OverlapWith(r) == Area(historical_geom \cap reference_paddocks[r])

\* the reference paddocks that are candidates: non-empty intersection and a
\* historical geometry of non-zero area
Candidates ==
    {r \in DOMAIN reference_paddocks :
        /\ ~Intersection(historical_geom, reference_paddocks[r]).is_empty
        /\ Area(historical_geom) # 0}

\* C4: find_best_spatial_match returns the candidate of greatest overlap ratio,
\* the first in iteration order (ascending id) among equals; (None, 0) when no
\* candidate has a positive overlap; and a historical polygon (of positive
\* area) contained in exactly one reference polygon yields that polygon with
\* ratio 1.
C4_BestMatch ==
    pc = "match_done" =>
        /\ IF \A r \in Candidates : OverlapWith(r) = 0
           THEN match.best = NoneId /\ match.num = 0
           ELSE /\ match.best \in Candidates
                /\ OverlapWith(match.best) > 0
                /\ match.num * Area(historical_geom) = OverlapWith(match.best) * match.den
                /\ \A r \in Candidates :
                      /\ OverlapWith(r) <= OverlapWith(match.best)
                      /\ OverlapWith(r) = OverlapWith(match.best) => match.best <= r
        /\ \A r \in DOMAIN reference_paddocks :
              ( /\ Area(historical_geom) > 0
                /\ historical_geom \subseteq reference_paddocks[r]
                /\ \A q \in DOMAIN reference_paddocks :
                      historical_geom \subseteq reference_paddocks[q] => q = r )
              => (match.best = r /\ match.num = match.den)

\* two reference paddocks tie for the greatest ratio, below 1, and the one that
\* comes first is returned although it is not the first reference paddock
C4_Witness ==
    /\ pc = "match_done"
    /\ \E r, q \in Candidates :
          /\ r < q
          /\ OverlapWith(r) = OverlapWith(q)
          /\ OverlapWith(r) > 0
          /\ OverlapWith(r) < Area(historical_geom)
          /\ match.best = r
          /\ \E first \in DOMAIN reference_paddocks : first < r

\* C5 as stated: the mapping and the statistics used for a farm hold exactly
\* the distinct paddock_ids of that farm's own input.
C5_NoCrossFarmState ==
    pc = "stats" =>
        /\ DOMAIN paddock_mapping = PaddockIds(gdf)
        /\ stats.total_paddocks = Cardinality(PaddockIds(gdf))

(***************************************************************************)
(*                       properties of the normalizer                      *)
(***************************************************************************)
\* rows of the frame whose paddock_id has a mapping entry, and their group keys
MappedRows == {i \in Indices(gdf) : gdf[i].data_paddock_id \in DOMAIN paddock_mapping}
KeyOfRow(i) == <<paddock_mapping[gdf[i].data_paddock_id], gdf[i].year, gdf[i].namespace>>
RowsOfKey(k) == {i \in MappedRows : KeyOfRow(i) = k}

\* C6 as stated: the output has exactly one row for each (mapped paddock_id,
\* year) pair of the records that have a mapping entry, none twice, none missing.
C6_OneRowPerPair ==
    pc = "norm_done" =>
        /\ {<<r.normalized_paddock_id, r.year>> : r \in normalized_df.rows}
             = {<<KeyOfRow(i)[1], KeyOfRow(i)[2]>> : i \in MappedRows}
        /\ \A r1, r2 \in normalized_df.rows :
              (r1.normalized_paddock_id = r2.normalized_paddock_id /\ r1.year = r2.year)
              => r1 = r2

\* the values of attribute key over the rows G that hold it, in frame order
ValuesOfKey(G, key) ==
    LET holders == {i \in G : gdf[i].data.isdict /\ key \in DOMAIN gdf[i].data.items}
    IN  [j \in 1..Cardinality(holders) |-> gdf[SeqOfSet(holders)[j]].data.items[key]]

\* C7: for a group of more than one record the combined mapping has the union
\* of the records' keys; each value is apply_rule on the values of the records
\* holding the key, under the rule configured for (namespace, key) or "first",
\* with the number of distinct original paddock_ids as the count.
C7_MergeAggregation ==
    pc = "norm_done" =>
        \A k \in {KeyOfRow(i) : i \in MappedRows} :
            Cardinality(RowsOfKey(k)) > 1 =>
                LET G == RowsOfKey(k)
                    unit_count == Cardinality({gdf[i].data_paddock_id : i \in G})
                    keys == UNION {DOMAIN gdf[i].data.items : i \in G}
                    Configured(key) ==
                        IF k[3] \in DOMAIN rules /\ key \in DOMAIN rules[k[3]]
                        THEN rules[k[3]][key] ELSE "first"
                    combined == [key \in keys |->
                                    ApplyRule(ValuesOfKey(G, key), Configured(key), unit_count)]
                IN  \E r \in result_data :
                        /\ <<r.normalized_paddock_id, r.year, r.namespace>> = k
                        /\ \A q \in result_data :
                              <<q.normalized_paddock_id, q.year, q.namespace>> = k => q = r
                        /\ r.original_paddock_count = unit_count
                        /\ r.data.json = (keys # {})
                        /\ r.data.obj = combined

\* two livestock records of two paddocks with animal_count 10 and 15, merged
\* under the default rule sum into 25 with original_paddock_count 2
C7_Witness ==
    /\ pc = "norm_done"
    /\ rules = DefaultRules
    /\ Len(gdf) = 2
    /\ gdf[1].data = Dict([key \in {"animal_count"} |-> IntV(10)])
    /\ gdf[2].data = Dict([key \in {"animal_count"} |-> IntV(15)])
    /\ gdf[1].data_paddock_id # gdf[2].data_paddock_id
    /\ \E r \in result_data :
          /\ r.namespace = "livestock"
          /\ r.original_paddock_count = 2
          /\ r.data.json
          /\ r.data.obj = [key \in {"animal_count"} |-> FloatV(25, 1)]

(***************************************************************************)
(*                    properties of the aggregation rules                  *)
(***************************************************************************)
NonNullIndices == {i \in 1..Len(vals) : vals[i].kind # "null"}
FirstNonNull == vals[MinOf(NonNullIndices)]
HasBigInt == \E i \in 1..Len(vals) : vals[i].kind = "bigint"

\* the arithmetic sum of the entries float() converts
RECURSIVE SumCoercible(_)
SumCoercible(s) ==
    IF s = <<>> THEN 0
    ELSE (IF Head(s).kind = "int" THEN Head(s).num ELSE 0) + SumCoercible(Tail(s))

\* the number v equals the integer n
NumEq(v, n) == v.kind \in {"int", "float"} /\ v.num = n * v.den

\* C8 as stated: rule sum returns the sum of the numeric-coercible entries for
\* every input with a non-null entry.
C8_SumOfCoercible ==
    (pc = "rule_done" /\ rule = "sum" /\ NonNullIndices # {}) =>
        NumEq(result, SumCoercible(vals))

\* C8 amended: rule sum returns the sum of the numeric-coercible entries,
\* ignoring null and non-numeric ones, for every input with a non-null entry
\* and no number beyond the float range; with such a number in the input the
\* result is the first non-null entry.
C8_SumOfCoercibleInRange ==
    (pc = "rule_done" /\ rule = "sum" /\ NonNullIndices # {}) =>
        IF HasBigInt THEN result = FirstNonNull
        ELSE NumEq(result, SumCoercible(vals))

\* sum over an input that mixes a null, a string and two numbers
C8_Witness ==
    /\ pc = "rule_done"
    /\ rule = "sum"
    /\ ~HasBigInt
    /\ \E i, j, m, n \in 1..Len(vals) :
          /\ vals[i].kind = "null"
          /\ vals[j].kind = "str"
          /\ m # n
          /\ vals[m].kind = "int"
          /\ vals[n].kind = "int"
    /\ NumEq(result, SumCoercible(vals))
    /\ result.num > 15

\* applying the rule raises inside the try block: a numeric rule meets a number
\* that float() cannot convert
FailsInternally ==
    /\ NonNullIndices # {}
    /\ rule \in {"sum", "mean", "divide_by_paddock_count"}
    /\ HasBigInt

Freq(v) == Cardinality({i \in 1..Len(vals) : vals[i] = v})
FirstIndexOf(v) == MinOf({i \in 1..Len(vals) : vals[i] = v})

\* C10: rule majority returns the non-null value of highest frequency, and
\* among values that tie for it the one appearing first in the input.
C10_Majority ==
    (pc = "rule_done" /\ rule = "majority" /\ NonNullIndices # {}) =>
        /\ \E i \in NonNullIndices : vals[i] = result
        /\ \A j \in NonNullIndices :
              /\ Freq(vals[j]) <= Freq(result)
              /\ Freq(vals[j]) = Freq(result) => FirstIndexOf(result) <= FirstIndexOf(vals[j])

\* two values tie with two occurrences each; the one that appears first wins
C10_Witness ==
    /\ pc = "rule_done"
    /\ rule = "majority"
    /\ \E i, j \in NonNullIndices :
          /\ i < j
          /\ vals[i] # vals[j]
          /\ Freq(vals[i]) = 2
          /\ Freq(vals[j]) = 2
          /\ result = vals[i]

\* the most frequent value wins although another value comes first
C10_NotFirstReached ==
    /\ pc = "rule_done"
    /\ rule = "majority"
    /\ NonNullIndices # {}
    /\ result # FirstNonNull

(***************************************************************************)
(*                  properties of single-record groups                     *)
(***************************************************************************)
\* the groups of exactly one record whose data is a mapping
SingleKeys ==
    {k \in {KeyOfRow(i) : i \in MappedRows} :
        /\ Cardinality(RowsOfKey(k)) = 1
        /\ \A i \in RowsOfKey(k) : gdf[i].data.isdict}

\* the data mapping of the one record of group k
SingleData(k) == gdf[CHOOSE i \in RowsOfKey(k) : TRUE].data.items

\* the (paddock_id, year, namespace) entries of the output that hold a mapping
OutputKeys ==
    {k \in (NormIds \X Years \X {"livestock", "production"}) :
        \E r \in normalized_df.rows :
            /\ r.normalized_paddock_id = k[1]
            /\ r.year = k[2]
            /\ k[3] \in normalized_df.columns
            /\ r.cells[k[3]].json}

\* the mapping sends every paddock_id of the frame to itself
IdentityMapping ==
    /\ PaddockIds(gdf) \subseteq DOMAIN paddock_mapping
    /\ \A p \in PaddockIds(gdf) : paddock_mapping[p] = p

\* C11 as stated: for every group of exactly one record the cell produced by
\* normalize_farm_data holds that record's data mapping unchanged, also when
\* the mapping is empty; so with the identity mapping an input of one record
\* per (paddock_id, year, namespace) gives back the same set of grouping keys.
C11_SingleRecordPassThrough ==
    pc = "norm_done" =>
        /\ \A k \in SingleKeys :
              \E r \in normalized_df.rows :
                  /\ r.normalized_paddock_id = k[1]
                  /\ r.year = k[2]
                  /\ k[3] \in normalized_df.columns
                  /\ r.cells[k[3]].json
                  /\ r.cells[k[3]].obj = SingleData(k)
        /\ ( /\ IdentityMapping
             /\ \A i \in Indices(gdf) : KeyOfRow(i) \in SingleKeys )
           => OutputKeys = {KeyOfRow(i) : i \in Indices(gdf)}

\* what the code does keep: a single record whose mapping is not empty has its
\* mapping, keys and values unchanged, in the cell of its group
C11_NonEmptyPassedThrough ==
    pc = "norm_done" =>
        \A k \in SingleKeys :
            SingleData(k) # EmptyMap =>
                \E r \in normalized_df.rows :
                    /\ r.normalized_paddock_id = k[1]
                    /\ r.year = k[2]
                    /\ k[3] \in normalized_df.columns
                    /\ r.cells[k[3]].json
                    /\ r.cells[k[3]].obj = SingleData(k)

\* a single record with an empty mapping next to one with a non-empty mapping:
\* the first has no cell holding {}, the second is passed through
C11_EmptyMappingLost ==
    /\ pc = "norm_done"
    /\ \E k1, k2 \in SingleKeys :
          /\ SingleData(k1) = EmptyMap
          /\ SingleData(k2) # EmptyMap
          /\ k1 \notin OutputKeys
          /\ k2 \in OutputKeys

(***************************************************************************)
(*                    properties of the reference set                      *)
(***************************************************************************)
\* the reference-year rows of paddock p
RefRowsOf(p) == {i \in RefRows : gdf[i].data_paddock_id = p}

\* the geometries of the reference-year rows of p with the greatest updated_at
MostRecentGeoms(p) ==
    {gdf[i].geometry : i \in {j \in RefRowsOf(p) :
                                 \A m \in RefRowsOf(p) : gdf[m].updated_at <= gdf[j].updated_at}}

\* the frame is in the order of the query: ORDER BY d.year DESC, p.updated_at DESC
QueryOrder ==
    \A i \in 1..(Len(gdf) - 1) :
        \/ gdf[i].year > gdf[i + 1].year
        \/ gdf[i].year = gdf[i + 1].year /\ gdf[i].updated_at >= gdf[i + 1].updated_at

C12_FirstEncounteredKept ==
    pc = "reference" =>
        /\ DOMAIN reference_paddocks = RefIdsOfInput
        /\ \A p \in RefIdsOfInput :
              reference_paddocks[p] = gdf[MinOf(RefRowsOf(p))].geometry

\* on a frame in the order of the query the first row is the most recent one
C12_MostRecentOnQueryOrder ==
    (pc = "reference" /\ QueryOrder) =>
        \A p \in RefIdsOfInput : reference_paddocks[p] \in MostRecentGeoms(p)

\* a frame in the order of the query with two reference-year rows of one paddock
\* that differ in updated_at and in geometry
C12_QueryOrderReached ==
    /\ pc = "reference"
    /\ QueryOrder
    /\ \E p \in RefIdsOfInput : \E i, j \in RefRowsOf(p) :
          /\ gdf[i].updated_at > gdf[j].updated_at
          /\ gdf[i].geometry # gdf[j].geometry
          /\ reference_paddocks[p] = gdf[i].geometry

====
